---- MODULE Spec2Model ----
(***************************************************************************)
(* Model of dbldatagen.data_analyzer.DataAnalyzer: the summary pipeline    *)
(* (summarizeToDF / addMeasureToSummary / summarize) and the code          *)
(* synthesis from a schema (scriptDataGeneratorFromSchema /               *)
(* _generatorDefaultAttributesFromType).                                   *)
(*                                                                         *)
(* The Spark engine is modelled by what the calls made by the source do:   *)
(*   - selectExpr with at least one aggregate function is a global         *)
(*     aggregate (exactly one row, also over an empty frame); selectExpr   *)
(*     with literals only is a projection (one row per input row);         *)
(*   - union is positional and keeps the column names of its left side;    *)
(*   - describe() reports mean/stddev for numeric and string columns only; *)
(*   - x / 0 is NULL, or an error when ANSI mode is enabled.               *)
(* An optional value (SQL NULL, Python None) is a sequence of length <= 1. *)
(***************************************************************************)
EXTENDS Integers, Sequences, FiniteSets, TLC

\* ---------------------------------------------------------------- bounds
MaxFields == 2
MaxCells == 4
MaxVal == 2
MaxRowLimit == 2

\* ------------------------------------------------------- optional values
None == <<>>

Some(v) == <<v>>

\* Python str(x) of a value collected from a Row: str(None) is 'None'
PyStr(cell) == IF cell = None THEN "None" ELSE cell[1]

\* Python f"{n * 1.0}" for a row count n
PyFloatStr(n) == ToString(n) \o ".0"

RECURSIVE Join(_, _)
\* Python sep.join(strs)
Join(strs, sep) ==
    IF Len(strs) = 0 THEN ""
    ELSE IF Len(strs) = 1 THEN strs[1]
    ELSE strs[1] \o sep \o Join(Tail(strs), sep)

\* ------------------------------------------------------------ data types
\* str(dataType) of the pyspark.sql.types instances a schema field may hold
DataTypes ==
    {"LongType", "IntegerType", "StringType", "DoubleType", "FloatType",
     "TimestampType", "DateType"}

\* DataType.simpleString(), which is also the second item of df.dtypes
simpleString(typ) ==
    CASE typ = "LongType" -> "bigint"
      [] typ = "IntegerType" -> "int"
      [] typ = "StringType" -> "string"
      [] typ = "DoubleType" -> "double"
      [] typ = "FloatType" -> "float"
      [] typ = "TimestampType" -> "timestamp"
      [] typ = "DateType" -> "date"
      [] typ = "BooleanType" -> "boolean"
      [] OTHER -> typ

\* name of the i-th field of the analysed frame
FieldName(i) ==
    IF i = 1 THEN "id" ELSE IF i = 2 THEN "name" ELSE "c" \o ToString(i)

\* StructType of StructFields, in declaration order
StructType(types) ==
    [i \in 1..Len(types) |-> [name |-> FieldName(i), dataType |-> types[i]]]

\* the field types of the analysed frames: a long, a text, a floating and a
\* temporal one
SchemaTypes == {"LongType", "StringType", "DoubleType", "TimestampType"}

Schemas == UNION {{StructType(ts) : ts \in [1..n -> SchemaTypes]} : n \in 1..MaxFields}

\* a data cell: NULL or the v-th value of the column's type
DataCells == {None} \cup {Some(v) : v \in 1..MaxVal}

\* the frames over a schema: rows of one cell per field
DataRows(sch) ==
    UNION {[1..r -> [1..Len(sch) -> DataCells]] : r \in 0..(MaxCells \div Len(sch))}

\* Spark cast(value as string) of the v-th value of a column of type tag
CastToString(tag, v) ==
    CASE tag \in {"bigint", "int"} -> ToString(v)
      [] tag \in {"double", "float"} -> ToString(v) \o ".0"
      [] tag = "string" -> "w" \o ToString(v)
      [] tag = "timestamp" -> "1970-01-0" \o ToString(v) \o " 00:00:00"
      [] OTHER -> "1970-01-0" \o ToString(v)

\* ------------------------------------------------------------- _lookupFieldType
_lookupFieldType(typ) ==
    CASE typ = "LongType" -> "Long"
      [] typ = "IntegerType" -> "Int"
      [] typ = "TimestampType" -> "Timestamp"
      [] typ = "FloatType" -> "Float"
      [] typ = "StringType" -> "String"
      [] OTHER -> typ

\* _getFieldNames(schema)
_getFieldNames(sch) == [i \in 1..Len(sch) |-> sch[i].name]

\* df.dtypes: (name, simpleString) per field
Dtypes(sch) == [i \in 1..Len(sch) |-> <<sch[i].name, simpleString(sch[i].dataType)>>]

\* ------------------------------------------------------ the query engine
\* the analysed frame self.df
DataFrame(sch, rws) == [schema |-> sch, rows |-> rws]

\* the values of column i, NULLs included, in row order
ColumnCells(df, i) == [r \in 1..Len(df.rows) |-> df.rows[r][i]]

\* the non-null values of column i
ColumnValues(df, i) ==
    {df.rows[r][i][1] : r \in {q \in 1..Len(df.rows) : df.rows[q][i] # None}}

\* SQL count(col): the number of rows whose value of col is not NULL
CountNonNull(df, i) ==
    Cardinality({r \in 1..Len(df.rows) : df.rows[r][i] # None})

\* SQL count(distinct *): the distinct rows none of whose columns is NULL
CountDistinctRows(df) ==
    Cardinality({df.rows[r] : r \in {q \in 1..Len(df.rows) :
                     \A i \in 1..Len(df.schema) : df.rows[q][i] # None}})

SetMin(S) == CHOOSE v \in S : \A w \in S : v <= w

SetMax(S) == CHOOSE v \in S : \A w \in S : v >= w

\* cast(decimal(p, 2) as string) of h hundredths
DecimalStr2(h) ==
    ToString(h \div 100) \o "." \o ToString((h % 100) \div 10) \o ToString(h % 10)

\* round(num / den, 2), HALF_UP, in hundredths (den > 0, num >= 0)
RoundHundredths(num, den) == (200 * num + den) \div (2 * den)

\* the expressions the source hands to selectExpr
LitExpr(text, alias) == [op |-> "lit", col |-> 0, total |-> 0, s |-> text, as |-> alias]

AggExpr(fn, i, tot, alias) == [op |-> fn, col |-> i, total |-> tot, s |-> "", as |-> alias]

IsAggregate(exprs) == \E k \in 1..Len(exprs) : exprs[k].op # "lit"

\* the value of one expression of a global aggregate; every expression of the
\* source is wrapped in string(...), so the value is a string or NULL
EvalExpr(e, df) ==
    LET tag == simpleString(df.schema[e.col].dataType) IN
    CASE e.op = "lit" -> Some(e.s)
      [] e.op = "count" -> Some(ToString(CountNonNull(df, e.col)))
      [] e.op = "null_probability" ->
            IF e.total = 0 THEN None
            ELSE Some(DecimalStr2(RoundHundredths(e.total - CountNonNull(df, e.col), e.total)))
      [] e.op = "count_distinct" -> Some(ToString(Cardinality(ColumnValues(df, e.col))))
      [] e.op = "count_distinct_all" -> Some(ToString(CountDistinctRows(df)))
      [] e.op = "min" ->
            IF ColumnValues(df, e.col) = {} THEN None
            ELSE Some(CastToString(tag, SetMin(ColumnValues(df, e.col))))
      [] e.op = "max" ->
            IF ColumnValues(df, e.col) = {} THEN None
            ELSE Some(CastToString(tag, SetMax(ColumnValues(df, e.col))))

\* a division by a zero row count is an error when ANSI mode is enabled
EvalRaises(exprs, ansiEnabled) ==
    ansiEnabled /\ \E k \in 1..Len(exprs) :
        exprs[k].op = "null_probability" /\ exprs[k].total = 0

\* df.selectExpr(*exprs): a global aggregate if some expression aggregates,
\* a projection of every row otherwise
selectExpr(df, exprs) ==
    [columns |-> [k \in 1..Len(exprs) |-> exprs[k].as],
     rows |-> IF IsAggregate(exprs)
              THEN <<[k \in 1..Len(exprs) |-> EvalExpr(exprs[k], df)]>>
              ELSE [r \in 1..Len(df.rows) |-> [k \in 1..Len(exprs) |-> Some(exprs[k].s)]]]

\* DataFrame.limit(n)
Limit(sdf, n) ==
    [columns |-> sdf.columns,
     rows |-> IF Len(sdf.rows) <= n THEN sdf.rows ELSE SubSeq(sdf.rows, 1, n)]

\* DataFrame.union(other): by position, with the column names of the left side
Union(left, right) == [columns |-> left.columns, rows |-> left.rows \o right.rows]

\* dfSummary=None
NoDF == [columns |-> <<>>, rows |-> <<>>]

\* variant: the new rows are put before the rows of dfSummary
addMeasureToSummaryPrepend(measureName, summaryExpr, fieldExprs, dfData, rowLimit, dfSummary) ==
    LET exprs == <<LitExpr(measureName, "measure_"),
                   [summaryExpr EXCEPT !.as = "summary_"]>> \o fieldExprs
    IN IF dfSummary # NoDF
       THEN Union(Limit(selectExpr(dfData, exprs), rowLimit), dfSummary)
       ELSE Limit(selectExpr(dfData, exprs), rowLimit)

\* addMeasureToSummary(measureName, summaryExpr, fieldExprs, dfData, rowLimit, dfSummary);
\* summaryExpr is the expression inside string(...)
addMeasureToSummary(measureName, summaryExpr, fieldExprs, dfData, rowLimit, dfSummary) ==
    LET exprs == <<LitExpr(measureName, "measure_"),
                   [summaryExpr EXCEPT !.as = "summary_"]>> \o fieldExprs
    IN IF dfSummary # NoDF
       THEN Union(dfSummary, Limit(selectExpr(dfData, exprs), rowLimit))
       ELSE Limit(selectExpr(dfData, exprs), rowLimit)

\* ------------------------------------------------- df.describe() (engine)
RECURSIVE SumCells(_)
\* the sum of the non-null values of a sequence of cells
SumCells(cells) ==
    IF Len(cells) = 0 THEN 0
    ELSE (IF cells[1] = None THEN 0 ELSE cells[1][1]) + SumCells(Tail(cells))

\* the squares of the non-null values of a sequence of cells
Squares(cells) ==
    [r \in 1..Len(cells) |-> IF cells[r] = None THEN None ELSE Some(cells[r][1] * cells[r][1])]

\* text of the double num / den: exact when integral, else the fraction
DoubleStr(num, den) ==
    IF num % den = 0 THEN ToString(num \div den) \o ".0"
    ELSE ToString(num) \o "/" \o ToString(den)

\* avg(col) as describe() reports it: NULL without a numeric value
MeanOf(df, i) ==
    LET n == CountNonNull(df, i)
        tag == simpleString(df.schema[i].dataType)
    IN IF tag = "string" \/ n = 0 THEN None
       ELSE Some(DoubleStr(SumCells(ColumnCells(df, i)), n))

\* stddev_samp(col) as describe() reports it: NULL with fewer than 2 values
StddevOf(df, i) ==
    LET n == CountNonNull(df, i)
        tag == simpleString(df.schema[i].dataType)
        sm == SumCells(ColumnCells(df, i))
        sq == SumCells(Squares(ColumnCells(df, i)))
    IN IF tag = "string" \/ n < 2 THEN None
       ELSE IF n * sq = sm * sm THEN Some("0.0")
       ELSE Some("sqrt(" \o DoubleStr(n * sq - sm * sm, n * (n - 1)) \o ")")

\* the columns describe() covers: numeric and string ones
Described(df) ==
    SelectSeq([i \in 1..Len(df.schema) |-> i],
              LAMBDA i : simpleString(df.schema[i].dataType)
                           \in {"bigint", "int", "double", "float", "string"})

\* one Row of describe(): (key, value) pairs, 'summary' first
DescribeRow(df, stat) ==
    <<<<"summary", Some(stat)>>>> \o
    [k \in 1..Len(Described(df)) |->
        <<df.schema[Described(df)[k]].name,
          IF stat = "mean" THEN MeanOf(df, Described(df)[k])
          ELSE StddevOf(df, Described(df)[k])>>]

\* self.df.describe().where("summary in ('mean', 'stddev')").collect()
Describe(df) == <<DescribeRow(df, "mean"), DescribeRow(df, "stddev")>>

\* row[key] of a collected Row
RowGet(row, key) == row[CHOOSE k \in 1..Len(row) : row[k][1] = key][2]

\* the keys of row.asDict()
RowKeys(row) == {row[k][1] : k \in 1..Len(row)}

\* ----------------------------------------- the measures of summarizeToDF
\* to_json(named_struct('column_count', len(dtypes)))
SchemaSummaryExpr(dts) ==
    LitExpr("{\"column_count\":" \o ToString(Len(dts)) \o "}", "")

\* variant: dtype[0] is written where dtype[1] belongs
SchemaFieldExprsNames(dts) ==
    [i \in 1..Len(dts) |-> LitExpr(dts[i][1], dts[i][1])]

\* [f"'{dtype[1]}' as {dtype[0]}" for dtype in dtypes]
SchemaFieldExprs(dts) ==
    [i \in 1..Len(dts) |-> LitExpr(dts[i][2], dts[i][1])]

\* summaryExpr=f"{total_count}"
CountSummaryExpr(total) == LitExpr(PyFloatStr(total), "")

\* the default summaryExpr="''"
DefaultSummaryExpr == LitExpr("", "")

\* summaryExpr="count(distinct *)"
DistinctCountSummaryExpr == AggExpr("count_distinct_all", 0, 0, "")

\* variant: every aggregate measure computes count
AggFieldExprsAllCount(fn, dts, total) ==
    [i \in 1..Len(dts) |-> AggExpr("count", i, total, dts[i][1])]

\* [f"string(fn({dtype[0]})) as {dtype[0]}" for dtype in dtypes], fn one of
\* count, null_probability (with total_count), count_distinct, min, max
AggFieldExprs(fn, dts, total) ==
    [i \in 1..Len(dts) |-> AggExpr(fn, i, total, dts[i][1])]

\* values = {k[0]: '' for k in dtypes}; values[k1] = str(row[k1]) for the row's keys
ReshapeValues(dts, row) ==
    [k \in {dts[i][1] : i \in 1..Len(dts)} \cup RowKeys(row) |->
        IF k \in RowKeys(row) THEN PyStr(RowGet(row, k)) ELSE ""]

\* variant: the values are emitted in reverse field order
DescribedFieldExprsReversed(dts, values) ==
    [i \in 1..Len(dts) |-> LitExpr(values[dts[Len(dts) + 1 - i][1]], values[dts[Len(dts) + 1 - i][1]])]

\* [f"'{values[dtype[0]]}'" for dtype in dtypes]: literals without alias
DescribedFieldExprs(dts, values) ==
    [i \in 1..Len(dts) |-> LitExpr(values[dts[i][1]], values[dts[i][1]])]

\* ------------------------------------------------ _displayRow, summarize
\* variant: the column names are left out of the pairs
_displayRowValuesOnly(columns, row) ==
    Join([k \in 1..Len(columns) |-> PyStr(row[k])], ", ")

\* ", ".join(f"{x}: {row[x]}" for x in row.asDict())
_displayRow(columns, row) ==
    Join([k \in 1..Len(columns) |-> columns[k] \o ": " \o PyStr(row[k])], ", ")

\* the list results of summarize: the banner, then one entry per collected row
SummarizeResults(sdf) ==
    <<"Data set summary", "================">> \o
    [r \in 1..Len(sdf.rows) |-> _displayRow(sdf.columns, sdf.rows[r])]

\* _summarizeField(field) of a StructField
_summarizeField(field) == field.name \o " " \o _lookupFieldType(field.dataType)

\* summarizeFields(schema) of a schema that is not None
summarizeFields(sch) ==
    "Record(" \o Join([i \in 1..Len(sch) |-> _summarizeField(sch[i])], ",") \o ")"

\* ------------------------------------------------------- code synthesis
DEFAULT_GENERATED_NAME == "synthetic_data"

\* the backquotes of the source text are written ' here
GENERATED_COMMENT ==
    "\n# Code snippet generated with Databricks Labs Data Generator ('dbldatagen') DataAnalyzer class"
    \o "\n# Install with 'pip install dbldatagen' or in notebook with '%pip install dbldatagen'"
    \o "\n# See the following resources for more details:"
    \o "\n#"
    \o "\n#   Getting Started - [https://databrickslabs.github.io/dbldatagen/public_docs/APIDOCS.html]"
    \o "\n#   Github project - [https://github.com/databrickslabs/dbldatagen]"
    \o "\n#"

GENERATED_FROM_SCHEMA_COMMENT ==
    "\n# Column definitions are stubs only - modify to generate correct data  "
    \o "\n#"

\* the arguments _generatorDefaultAttributesFromType may be given: instances
\* of DataType (one of them matching no rule) and plain strings
TypeInputs ==
    {[isDataType |-> TRUE, tag |-> t] : t \in DataTypes \cup {"BooleanType"}}
    \cup {[isDataType |-> FALSE, tag |-> t] : t \in {"string", "bigint", "unknown"}}

\* variant: the final else branch yields an empty string
_generatorDefaultAttributesFromTypeNoCatchAll(sqlType) ==
    IF ~sqlType.isDataType THEN [raised |-> TRUE, value |-> ""]
    ELSE IF sqlType.tag = "StringType"
         THEN [raised |-> FALSE, value |-> "template=r'\\\\w'"]
    ELSE IF sqlType.tag \in {"IntegerType", "LongType"}
         THEN [raised |-> FALSE, value |-> "minValue=1, maxValue=1000000"]
    ELSE IF sqlType.tag \in {"FloatType", "DoubleType"}
         THEN [raised |-> FALSE, value |-> "minValue=1.0, maxValue=1000000.0, step=0.1"]
    ELSE [raised |-> FALSE, value |-> ""]

\* variant: LongType is listed with the floating types
_generatorDefaultAttributesFromTypeLongAsFloat(sqlType) ==
    IF ~sqlType.isDataType THEN [raised |-> TRUE, value |-> ""]
    ELSE IF sqlType.tag = "StringType"
         THEN [raised |-> FALSE, value |-> "template=r'\\\\w'"]
    ELSE IF sqlType.tag \in {"IntegerType"}
         THEN [raised |-> FALSE, value |-> "minValue=1, maxValue=1000000"]
    ELSE IF sqlType.tag \in {"FloatType", "DoubleType", "LongType"}
         THEN [raised |-> FALSE, value |-> "minValue=1.0, maxValue=1000000.0, step=0.1"]
    ELSE [raised |-> FALSE, value |-> "expr='null'"]

\* _generatorDefaultAttributesFromType(sqlType): the assertion, then the
\* if/elif chain; raised stands for the AssertionError
_generatorDefaultAttributesFromType(sqlType) ==
    IF ~sqlType.isDataType THEN [raised |-> TRUE, value |-> ""]
    ELSE IF sqlType.tag = "StringType"
         THEN [raised |-> FALSE, value |-> "template=r'\\\\w'"]
    ELSE IF sqlType.tag \in {"IntegerType", "LongType"}
         THEN [raised |-> FALSE, value |-> "minValue=1, maxValue=1000000"]
    ELSE IF sqlType.tag \in {"FloatType", "DoubleType"}
         THEN [raised |-> FALSE, value |-> "minValue=1.0, maxValue=1000000.0, step=0.1"]
    ELSE [raised |-> FALSE, value |-> "expr='null'"]

\* the builder statement opened by scriptDataGeneratorFromSchema
GenerationSpecHeader(name) ==
    "generation_spec = ("
    \o "\n    dg.DataGenerator(sparkSession=spark, "
    \o "\n                     name='" \o name \o "', "
    \o "\n                     rows=100000,"
    \o "\n                     random=True,"
    \o "\n                     )"

\* the statement emitted for one field
WithColumnLine(fld) ==
    "    " \o ".withColumn('" \o fld.name \o "', '" \o simpleString(fld.dataType) \o "', "
    \o _generatorDefaultAttributesFromType([isDataType |-> TRUE, tag |-> fld.dataType]).value
    \o ")"

\* the list generatedCode of scriptDataGeneratorFromSchema(schema, name=name)
scriptDataGeneratorFromSchema(sch, name) ==
    <<GENERATED_COMMENT,
      "import dbldatagen as dg",
      "import pyspark.sql.types",
      GENERATED_FROM_SCHEMA_COMMENT,
      GenerationSpecHeader(IF name = None THEN DEFAULT_GENERATED_NAME ELSE name[1])>>
    \o [i \in 1..Len(sch) |-> WithColumnLine(sch[i])]
    \o <<"    " \o ")">>

\* the names a caller passes: none, or one of its own
GeneratorNames == {None, Some("test_gen")}

\* ------------------------------------------------------------------ state
VARIABLES
    schema,         \* self.df.schema
    data,           \* the rows of self.df
    ansiEnabled,    \* the session's spark.sql.ansi.enabled
    pc,             \* position in the running operation
    total_count,    \* local of summarizeToDF
    dtypes,         \* local of summarizeToDF
    dfDataSummary,  \* local of summarizeToDF: the summary table
    describeData,   \* local of summarizeToDF: the collected describe() rows
    rowIdx,         \* index of the next row of describeData
    call,           \* arguments of the latest addMeasureToSummary call
    results,        \* local of summarize
    fieldsDesc,     \* value returned by summarizeFields
    generatedCode,  \* local of scriptDataGeneratorFromSchema
    sqlTypeArg,     \* argument of _generatorDefaultAttributesFromType
    attributes      \* its outcome

vars ==
    <<schema, data, ansiEnabled, pc, total_count, dtypes, dfDataSummary, describeData,
      rowIdx, call, results, fieldsDesc, generatedCode, sqlTypeArg, attributes>>

df == DataFrame(schema, data)

Init ==
    /\ schema \in Schemas
    /\ data \in DataRows(schema)
    /\ ansiEnabled \in BOOLEAN
    /\ pc = "ready"
    /\ total_count = 0
    /\ dtypes = <<>>
    /\ dfDataSummary = NoDF
    /\ describeData = <<>>
    /\ rowIdx = 0
    /\ call = [measureName |-> "", rowLimit |-> 0]
    /\ results = <<>>
    /\ fieldsDesc = ""
    /\ generatedCode = <<>>
    /\ sqlTypeArg = [isDataType |-> TRUE, tag |-> ""]
    /\ attributes = [raised |-> FALSE, value |-> ""]

\* summarizeToDF, lines 152-156: the row count and the dtypes
SummarizeToDFStart ==
    /\ pc = "ready"
    /\ total_count' = Len(data)
    /\ dtypes' = Dtypes(schema)
    /\ pc' = "schema"
    /\ UNCHANGED <<schema, data, ansiEnabled, dfDataSummary, describeData, rowIdx, call,
                   results, fieldsDesc, generatedCode, sqlTypeArg, attributes>>

\* one addMeasureToSummary call of summarizeToDF with the default rowLimit;
\* an engine error ends the run
MeasureStep(measureName, summaryExpr, fieldExprs, next) ==
    /\ call' = [measureName |-> measureName, rowLimit |-> 1]
    /\ IF EvalRaises(fieldExprs, ansiEnabled)
       THEN pc' = "raised" /\ UNCHANGED dfDataSummary
       ELSE /\ dfDataSummary' =
                 addMeasureToSummary(measureName, summaryExpr, fieldExprs, df, 1, dfDataSummary)
            /\ pc' = next
    /\ UNCHANGED <<schema, data, ansiEnabled, total_count, dtypes, results, fieldsDesc,
                   generatedCode, sqlTypeArg, attributes>>

AddSchema ==
    /\ pc = "schema"
    /\ MeasureStep("schema", SchemaSummaryExpr(dtypes), SchemaFieldExprs(dtypes), "count")
    /\ UNCHANGED <<describeData, rowIdx>>

AddCount ==
    /\ pc = "count"
    /\ MeasureStep("count", CountSummaryExpr(total_count),
                   AggFieldExprs("count", dtypes, total_count), "null_probability")
    /\ UNCHANGED <<describeData, rowIdx>>

AddNullProbability ==
    /\ pc = "null_probability"
    /\ MeasureStep("null_probability", DefaultSummaryExpr,
                   AggFieldExprs("null_probability", dtypes, total_count), "distinct_count")
    /\ UNCHANGED <<describeData, rowIdx>>

AddDistinctCount ==
    /\ pc = "distinct_count"
    /\ MeasureStep("distinct_count", DistinctCountSummaryExpr,
                   AggFieldExprs("count_distinct", dtypes, total_count), "min")
    /\ UNCHANGED <<describeData, rowIdx>>

AddMin ==
    /\ pc = "min"
    /\ MeasureStep("min", DefaultSummaryExpr, AggFieldExprs("min", dtypes, total_count), "max")
    /\ UNCHANGED <<describeData, rowIdx>>

AddMax ==
    /\ pc = "max"
    /\ MeasureStep("max", DefaultSummaryExpr, AggFieldExprs("max", dtypes, total_count),
                   "describe")
    /\ UNCHANGED <<describeData, rowIdx>>

\* lines 201-202: describe() is collected
CollectDescribe ==
    /\ pc = "describe"
    /\ describeData' = Describe(df)
    /\ rowIdx' = 1
    /\ pc' = "loop"
    /\ UNCHANGED <<schema, data, ansiEnabled, total_count, dtypes, dfDataSummary, call,
                   results, fieldsDesc, generatedCode, sqlTypeArg, attributes>>

\* lines 204-217: one iteration of the loop over describeData
AddDescribed ==
    /\ pc = "loop"
    /\ rowIdx <= Len(describeData)
    /\ MeasureStep(RowGet(describeData[rowIdx], "summary")[1], DefaultSummaryExpr,
                   DescribedFieldExprs(dtypes, ReshapeValues(dtypes, describeData[rowIdx])),
                   "loop")
    /\ rowIdx' = rowIdx + 1
    /\ UNCHANGED describeData

\* line 219
ReturnSummary ==
    /\ pc = "loop"
    /\ rowIdx > Len(describeData)
    /\ pc' = "returned"
    /\ UNCHANGED <<schema, data, ansiEnabled, total_count, dtypes, dfDataSummary, describeData,
                   rowIdx, call, results, fieldsDesc, generatedCode, sqlTypeArg, attributes>>

\* summarize, lines 229-242, on the table summarizeToDF returned
Summarize ==
    /\ pc = "returned"
    /\ results' = SummarizeResults(dfDataSummary)
    /\ pc' = "summarized"
    /\ UNCHANGED <<schema, data, ansiEnabled, total_count, dtypes, dfDataSummary, describeData,
                   rowIdx, call, fieldsDesc, generatedCode, sqlTypeArg, attributes>>

\* a caller adds a measure of its own to the returned table, with a row limit
\* of its choice and one literal per field
ClientAddMeasure ==
    /\ pc = "returned"
    /\ \E rowLimit \in 1..MaxRowLimit :
          /\ call' = [measureName |-> "client", rowLimit |-> rowLimit]
          /\ dfDataSummary' =
               addMeasureToSummary("client", DefaultSummaryExpr,
                   [i \in 1..Len(schema) |-> LitExpr("x", schema[i].name)],
                   df, rowLimit, dfDataSummary)
    /\ pc' = "extended"
    /\ UNCHANGED <<schema, data, ansiEnabled, total_count, dtypes, describeData, rowIdx,
                   results, fieldsDesc, generatedCode, sqlTypeArg, attributes>>

\* summarizeFields(self.df.schema)
SummarizeFields ==
    /\ pc = "ready"
    /\ fieldsDesc' = summarizeFields(schema)
    /\ pc' = "described"
    /\ UNCHANGED <<schema, data, ansiEnabled, total_count, dtypes, dfDataSummary, describeData,
                   rowIdx, call, results, generatedCode, sqlTypeArg, attributes>>

\* scriptDataGeneratorFromData / scriptDataGeneratorFromSchema(self.df.schema)
ScriptDataGenerator ==
    /\ pc = "ready"
    /\ \E name \in GeneratorNames :
          generatedCode' = scriptDataGeneratorFromSchema(schema, name)
    /\ pc' = "scripted"
    /\ UNCHANGED <<schema, data, ansiEnabled, total_count, dtypes, dfDataSummary, describeData,
                   rowIdx, call, results, fieldsDesc, sqlTypeArg, attributes>>

\* a direct call of _generatorDefaultAttributesFromType
ResolveDefaults ==
    /\ pc = "ready"
    /\ \E arg \in TypeInputs :
          /\ sqlTypeArg' = arg
          /\ attributes' = _generatorDefaultAttributesFromType(arg)
    /\ pc' = "resolved"
    /\ UNCHANGED <<schema, data, ansiEnabled, total_count, dtypes, dfDataSummary, describeData,
                   rowIdx, call, results, fieldsDesc, generatedCode>>

Next ==
    \/ SummarizeToDFStart
    \/ AddSchema
    \/ AddCount
    \/ AddNullProbability
    \/ AddDistinctCount
    \/ AddMin
    \/ AddMax
    \/ CollectDescribe
    \/ AddDescribed
    \/ ReturnSummary
    \/ Summarize
    \/ ClientAddMeasure
    \/ SummarizeFields
    \/ ScriptDataGenerator
    \/ ResolveDefaults

Spec == Init /\ [][Next]_vars

\* ------------------------------------------------------------ properties
FieldCount == Len(schema)

\* the rows of the summary table whose measure column is m
MeasureRows(m) == {r \in 1..Len(dfDataSummary.rows) : dfDataSummary.rows[r][1] = Some(m)}

\* the value of field i in row r of the summary table
FieldCell(r, i) == dfDataSummary.rows[r][i + 2]

BuiltInMeasures ==
    <<"schema", "count", "null_probability", "distinct_count", "min", "max", "mean", "stddev">>

\* C1 (as stated): the table a full summarization run returns has exactly 8
\* rows, one per built-in measure, and N+2 columns, for every frame, a frame
\* with 0 rows included.
C1_EightRows ==
    pc = "returned" =>
        /\ Len(dfDataSummary.rows) = 8
        /\ \A r \in 1..8 : dfDataSummary.rows[r][1] = Some(BuiltInMeasures[r])
        /\ Len(dfDataSummary.columns) = FieldCount + 2

\* C2 (as stated): _generatorDefaultAttributesFromType returns a non-empty
\* attribute string and never raises, for any string input.
C2_TotalOnStrings ==
    pc = "resolved" => ~attributes.raised /\ attributes.value # ""

\* C2 (amended): for every DataType instance, one matching no rule included,
\* _generatorDefaultAttributesFromType returns a non-empty attribute string and
\* does not raise; an argument that is not a DataType instance fails the
\* assertion.
C2_TotalOnDataTypes ==
    pc = "resolved" =>
        IF sqlTypeArg.isDataType
        THEN ~attributes.raised /\ attributes.value # ""
        ELSE attributes.raised

C2_Witness ==
    /\ pc = "resolved"
    /\ sqlTypeArg = [isDataType |-> TRUE, tag |-> "BooleanType"]
    /\ attributes = [raised |-> FALSE, value |-> "expr='null'"]

\* C3 (as stated): for a frame with 0 rows the null_probability measure does
\* not raise and its row holds a non-null value for every field.
C3_EmptyFrameDefined ==
    (pc \in {"distinct_count", "raised"} /\ Len(data) = 0) =>
        /\ pc # "raised"
        /\ MeasureRows("null_probability") # {}
        /\ \A r \in MeasureRows("null_probability") :
              \A i \in 1..FieldCount : FieldCell(r, i) # None

\* the non-null values of field i of the analysed frame
NonNullRows(i) == {r \in 1..Len(data) : data[r][i] # None}

NonNullValues(i) == {data[r][i][1] : r \in NonNullRows(i)}

\* (totalRows - nonNullCount) / totalRows rounded half up to hundredths: the
\* largest h with h - 1/2 <= 100 * missing / totalRows
NullHundredths(i) ==
    LET missing == Len(data) - Cardinality(NonNullRows(i))
    IN CHOOSE h \in 0..100 :
         /\ 2 * h * Len(data) - Len(data) <= 200 * missing
         /\ \A g \in 0..100 : 2 * g * Len(data) - Len(data) <= 200 * missing => g <= h

TwoDecimals(h) ==
    IF h = 100 THEN "1.00"
    ELSE IF h < 10 THEN "0.0" \o ToString(h)
    ELSE "0." \o ToString(h)

\* C4: for a frame with at least one row, the count, distinct_count,
\* null_probability, min and max rows hold, for every field, the number of
\* non-null values, the number of distinct non-null values, the fraction of
\* missing values rounded to 2 decimals, and the smallest and largest non-null
\* value, as strings.
C4_MeasureValues ==
    (pc = "returned" /\ Len(data) >= 1) =>
        \A i \in 1..FieldCount :
            /\ MeasureRows("count") # {}
            /\ \A r \in MeasureRows("count") :
                  FieldCell(r, i) = Some(ToString(Cardinality(NonNullRows(i))))
            /\ MeasureRows("distinct_count") # {}
            /\ \A r \in MeasureRows("distinct_count") :
                  FieldCell(r, i) = Some(ToString(Cardinality(NonNullValues(i))))
            /\ MeasureRows("null_probability") # {}
            /\ \A r \in MeasureRows("null_probability") :
                  FieldCell(r, i) = Some(TwoDecimals(NullHundredths(i)))
            /\ MeasureRows("min") # {}
            /\ MeasureRows("max") # {}
            /\ NonNullValues(i) # {} =>
                  /\ \A r \in MeasureRows("min") :
                        \E v \in NonNullValues(i) :
                           /\ \A w \in NonNullValues(i) : v <= w
                           /\ FieldCell(r, i) = Some(CastToString(dtypes[i][2], v))
                  /\ \A r \in MeasureRows("max") :
                        \E v \in NonNullValues(i) :
                           /\ \A w \in NonNullValues(i) : v >= w
                           /\ FieldCell(r, i) = Some(CastToString(dtypes[i][2], v))

\* the integer column [1, 2, 2, null] has count 3, distinct_count 2,
\* null_probability 0.25, min 1, max 2
C4_Witness ==
    /\ pc = "returned"
    /\ schema = StructType(<<"LongType">>)
    /\ data = <<<<Some(1)>>, <<Some(2)>>, <<Some(2)>>, <<None>>>>
    /\ dfDataSummary.rows[2] = <<Some("count"), Some("4.0"), Some("3")>>
    /\ dfDataSummary.rows[3] = <<Some("null_probability"), Some(""), Some("0.25")>>
    /\ dfDataSummary.rows[4] = <<Some("distinct_count"), Some("2"), Some("2")>>
    /\ dfDataSummary.rows[5] = <<Some("min"), Some(""), Some("1")>>
    /\ dfDataSummary.rows[6] = <<Some("max"), Some(""), Some("2")>>

\* the rules of the resolver in priority order: text, integer/long,
\* float/double; a type no rule matches gets the catch-all
TypeDefaultRules ==
    <<[matchTypes |-> {"StringType"}, attributes |-> "template=r'\\\\w'"],
      [matchTypes |-> {"IntegerType", "LongType"},
       attributes |-> "minValue=1, maxValue=1000000"],
      [matchTypes |-> {"FloatType", "DoubleType"},
       attributes |-> "minValue=1.0, maxValue=1000000.0, step=0.1"]>>

FirstMatchAttributes(typ) ==
    LET hits == {k \in 1..Len(TypeDefaultRules) : typ \in TypeDefaultRules[k].matchTypes}
    IN IF hits = {} THEN "expr='null'"
       ELSE TypeDefaultRules[CHOOSE k \in hits : \A j \in hits : k <= j].attributes

\* C5: scriptDataGeneratorFromSchema emits, between the five header entries and
\* the closing one, exactly one .withColumn statement per schema field, in
\* schema order, with the attributes of the first matching rule, which are
\* also what the resolver returns for every DataType.
C5_OneStatementPerField ==
    /\ (pc = "resolved" /\ sqlTypeArg.isDataType) =>
           attributes.value = FirstMatchAttributes(sqlTypeArg.tag)
    /\ pc = "scripted" =>
        /\ Len(generatedCode) = FieldCount + 6
        /\ generatedCode[2] = "import dbldatagen as dg"
        /\ generatedCode[3] = "import pyspark.sql.types"
        /\ generatedCode[FieldCount + 6] = "    )"
        /\ \A i \in 1..FieldCount :
              generatedCode[5 + i] =
                  "    .withColumn('" \o schema[i].name \o "', '"
                  \o simpleString(schema[i].dataType) \o "', "
                  \o FirstMatchAttributes(schema[i].dataType) \o ")"

\* Record(id: Long, name: String) yields two statements, id with a numeric
\* range and name with a text template
C5_Witness ==
    /\ pc = "scripted"
    /\ schema = StructType(<<"LongType", "StringType">>)
    /\ Len(generatedCode) = 8
    /\ generatedCode[6] = "    .withColumn('id', 'bigint', minValue=1, maxValue=1000000)"
    /\ generatedCode[7] = "    .withColumn('name', 'string', template=r'\\\\w')"

\* the statistic describe() has for field i in its row for stat, as the
\* reshaping of summarizeToDF writes it: the empty string for a field
\* describe() leaves out
ReshapedStatistic(stat, i) ==
    IF simpleString(schema[i].dataType) \in {"bigint", "int", "double", "float", "string"}
    THEN PyStr(IF stat = "mean" THEN MeanOf(df, i) ELSE StddevOf(df, i))
    ELSE ""

C6_MeanStddevAligned ==
    \A stat \in {"mean", "stddev"} : \A r \in MeasureRows(stat) :
        \A i \in 1..FieldCount : FieldCell(r, i) = Some(ReshapedStatistic(stat, i))

\* C6 (as stated): after every append the column list of the summary table is
\* [measure, summary] followed by the schema's field names in schema order.
C6_ColumnsMeasureSummary ==
    dfDataSummary # NoDF =>
        dfDataSummary.columns = <<"measure", "summary">> \o _getFieldNames(schema)

\* C6 (amended): after every append the column list of the summary table is
\* what it was before the append, namely [measure_, summary_] followed by the
\* schema's field names in schema order, and in the mean and stddev rows the
\* value of column i is the reshaped statistic of the i-th schema field.
C6_ColumnsStable ==
    /\ [](dfDataSummary # NoDF =>
            dfDataSummary.columns = <<"measure_", "summary_">> \o _getFieldNames(schema))
    /\ []C6_MeanStddevAligned
    /\ [][dfDataSummary # NoDF => dfDataSummary'.columns = dfDataSummary.columns]_vars

\* two fields whose mean differ, both in the returned table
C6_Witness ==
    /\ pc = "returned"
    /\ FieldCount = 2
    /\ \E r \in MeasureRows("mean") :
          /\ FieldCell(r, 1) # FieldCell(r, 2)
          /\ FieldCell(r, 1) = Some("1.0")
    /\ MeasureRows("stddev") # {}
    /\ dfDataSummary.columns = <<"measure_", "summary_", "id", "name">>

\* C7: every addMeasureToSummary call returns the rows of dfSummary, unchanged
\* and in order, followed by at most rowLimit new rows whose measure column is
\* measureName (just the new rows when dfSummary is absent).
C7_AppendOnly ==
    [][dfDataSummary' # dfDataSummary =>
         LET old == dfDataSummary.rows
             new == dfDataSummary'.rows
         IN /\ Len(new) >= Len(old)
            /\ Len(new) - Len(old) <= call'.rowLimit
            /\ \A r \in 1..Len(old) : new[r] = old[r]
            /\ \A r \in (Len(old) + 1)..Len(new) : new[r][1] = Some(call'.measureName)]_vars

\* a call with rowLimit 2 added two rows after the eight of the pipeline
C7_Witness ==
    /\ pc = "extended"
    /\ call = [measureName |-> "client", rowLimit |-> 2]
    /\ Len(dfDataSummary.rows) = 10
    /\ dfDataSummary.rows[1][1] = Some("schema")
    /\ dfDataSummary.rows[9][1] = Some("client")
    /\ dfDataSummary.rows[10][1] = Some("client")

\* C8 (as stated): in the schema row the value of each field is the field's
\* declared type name mapped through _lookupFieldType, and the summary is the
\* encoding of {column_count: N}.
C8_SchemaRowCanonical ==
    \A r \in MeasureRows("schema") :
        /\ dfDataSummary.rows[r][2] = Some("{\"column_count\":" \o ToString(FieldCount) \o "}")
        /\ \A i \in 1..FieldCount :
              FieldCell(r, i) = Some(_lookupFieldType(schema[i].dataType))

\* C8 (amended): in the schema row the value of each field is the field's type
\* as df.dtypes reports it (bigint for a LongType field), not mapped through
\* _lookupFieldType, and the summary is the encoding of {column_count: N}.
C8_SchemaRowDtypes ==
    \A r \in MeasureRows("schema") :
        /\ dfDataSummary.rows[r][2] = Some("{\"column_count\":" \o ToString(FieldCount) \o "}")
        /\ \A i \in 1..FieldCount :
              FieldCell(r, i) = Some(simpleString(schema[i].dataType))

C8_Witness ==
    /\ pc = "returned"
    /\ schema = StructType(<<"LongType", "DoubleType">>)
    /\ dfDataSummary.rows[1] =
          <<Some("schema"), Some("{\"column_count\":2}"), Some("bigint"), Some("double")>>

\* C9 (as stated): in the mean and stddev rows every field for which
\* describe() has no statistic (no column for the field, or a null value)
\* holds the empty string.
C9_MissingIsEmpty ==
    \A k \in 1..Len(describeData) :
        \A r \in MeasureRows(RowGet(describeData[k], "summary")[1]) :
            \A i \in 1..FieldCount :
                (\/ schema[i].name \notin RowKeys(describeData[k])
                 \/ RowGet(describeData[k], schema[i].name) = None)
                => FieldCell(r, i) = Some("")

RECURSIVE PairsUpTo(_, _)
\* the "<column>: <value>" pairs of summary row r for columns 1..k
PairsUpTo(r, k) ==
    IF k = 0 THEN ""
    ELSE (IF k = 1 THEN "" ELSE PairsUpTo(r, k - 1) \o ", ")
         \o dfDataSummary.columns[k] \o ": "
         \o (IF dfDataSummary.rows[r][k] = None THEN "None" ELSE dfDataSummary.rows[r][k][1])

\* C10: summarize renders the two banner lines, then one line per summary row
\* in row order, each the "<column>: <value>" pairs of the row in column order,
\* one pair per column.
C10_OneLinePerRow ==
    pc = "summarized" =>
        /\ Len(results) = Len(dfDataSummary.rows) + 2
        /\ results[1] = "Data set summary"
        /\ results[2] = "================"
        /\ \A r \in 1..Len(dfDataSummary.rows) :
              results[r + 2] = PairsUpTo(r, Len(dfDataSummary.columns))

C10_Witness ==
    /\ pc = "summarized"
    /\ Len(results) = 10
    /\ results[3] = "measure_: schema, summary_: {\"column_count\":2}, id: bigint, name: string"
    /\ results[7] = "measure_: min, summary_: , id: 1, name: None"

====
